---- MODULE Spec2Model ----
(***************************************************************************)
(* CTR dashboard (dashboard.py, cleaner.py): the load+clean step, the      *)
(* partner filter, the daily aggregation and the drop classification.      *)
(*                                                                         *)
(* Strings are sequences of one-character strings, so that lower/strip/    *)
(* regex-replace and the two strptime formats are computed character by    *)
(* character.  A missing cell (np.nan in an object column) is NaN, a       *)
(* missing number is [na |-> TRUE], a missing date (NaT) is <<>>.          *)
(* Numbers are integers and ratios of integers: IEEE-754 rounding of the   *)
(* float64 columns is not modelled, +inf/-inf/NaN of a division by zero    *)
(* are.  The columns campaign_id and ad_slot are read but never used by    *)
(* the pipeline and are left out of the rows.                              *)
(***************************************************************************)
EXTENDS Integers, Sequences, FiniteSets, TLC

VARIABLES
    file,         \* data/sample_campaign_logs.csv: the raw rows, as text
    cache,        \* st.cache_data store of load_data: <<>> or <<entry>>
    hit,          \* whether the last load_data call was served by the cache
    status,       \* "idle" before the first run, then "done" or "raised"
    error,        \* the exception that aborted the last run, "" when none
    loaded,       \* the frame load_data returned to the last run (line 33)
    warnings,     \* st.warning messages shown by the last run, in order
    partner_opts, \* line 37
    selected,     \* line 38: the sidebar selection
    df,           \* line 39: the rows of the selected partners
    daily,        \* lines 44-61: the DailyMetric rows with their drop_level
    drop_rows,    \* line 62: the DropEvents
    info          \* line 99: the "no 20%/30% declines" notice is shown

vars == <<file, cache, hit, status, error, loaded, warnings, partner_opts,
          selected, df, daily, drop_rows, info>>

(***************************************************************************)
(* Bounds of the model.                                                    *)
(***************************************************************************)
MaxRows == 3
MaxLiveRows == 2

(***************************************************************************)
(* Text.                                                                   *)
(***************************************************************************)
NaN == <<"NaN">>
NaT == <<>>
NaNum == [na |-> TRUE, v |-> 0]

Num(n) == [na |-> FALSE, v |-> n]

UpperChars == <<"A","B","C","D","E","F","G","H","I","J","K","L","M",
                "N","O","P","Q","R","S","T","U","V","W","X","Y","Z">>
LowerChars == <<"a","b","c","d","e","f","g","h","i","j","k","l","m",
                "n","o","p","q","r","s","t","u","v","w","x","y","z">>
DigitChars == <<"0","1","2","3","4","5","6","7","8","9">>

Range(s) == {s[i] : i \in DOMAIN s}

UpperSet == Range(UpperChars)
DigitSet == Range(DigitChars)
LowerAlnumSet == Range(LowerChars) \cup Range(DigitChars)

\* Code-point order of the characters a cleaned partner id can hold.
OrdChars == DigitChars \o LowerChars

OrdOf == [c \in Range(OrdChars) |-> CHOOSE i \in DOMAIN OrdChars : OrdChars[i] = c]

Ord(c) == OrdOf[c]

DigitOf == [c \in DigitSet |-> (CHOOSE i \in DOMAIN DigitChars : DigitChars[i] = c) - 1]

DigitVal(c) == DigitOf[c]

IsDigit(c) == c \in DigitSet

IsSpace(c) == c \in {" ", "\t"}

LowerOf == [c \in UpperSet |-> LowerChars[CHOOSE i \in DOMAIN UpperChars : UpperChars[i] = c]]

\* str.lower of one character
LowerChar(c) == IF c \in UpperSet THEN LowerOf[c] ELSE c

RECURSIVE LStrip(_)
LStrip(s) == IF s # <<>> /\ IsSpace(Head(s)) THEN LStrip(Tail(s)) ELSE s

RECURSIVE RStrip(_)
RStrip(s) ==
    IF s # <<>> /\ IsSpace(s[Len(s)]) THEN RStrip(SubSeq(s, 1, Len(s) - 1)) ELSE s

\* str.strip() of a text value
Strip(s) == RStrip(LStrip(s))

\* Series.str.lower(): missing values stay missing
StrLower(v) == IF v = NaN THEN NaN ELSE [i \in DOMAIN v |-> LowerChar(v[i])]

\* Series.str.strip()
StrStrip(v) == IF v = NaN THEN NaN ELSE Strip(v)

IsLowerAlnum(c) == c \in LowerAlnumSet

\* Series.str.replace(r'[^a-z0-9]', '', regex=True)
StrReplaceNonAlnum(v) == IF v = NaN THEN NaN ELSE SelectSeq(v, IsLowerAlnum)

\* Python's str < str on cleaned ids: lexicographic by code point
RECURSIVE StrLess(_, _)
StrLess(a, b) ==
    IF b = <<>> THEN FALSE
    ELSE IF a = <<>> THEN TRUE
    ELSE IF Head(a) # Head(b) THEN Ord(Head(a)) < Ord(Head(b))
    ELSE StrLess(Tail(a), Tail(b))

(***************************************************************************)
(* cleaner.py: clean_partner_ids                                           *)
(***************************************************************************)
brightblox == <<"b","r","i","g","h","t","b","l","o","x">>
funables   == <<"f","u","n","a","b","l","e","s">>
kidzsy     == <<"k","i","d","z","s","y">>
minimax    == <<"m","i","n","i","m","a","x">>
playpals   == <<"p","l","a","y","p","a","l","s">>
toonjoy    == <<"t","o","o","n","j","o","y">>
zappytoys  == <<"z","a","p","p","y","t","o","y","s">>

KnownPartners == {brightblox, funables, kidzsy, minimax, playpals, toonjoy, zappytoys}

\* the dict of s.replace({...}): <<misspelling, canonical name>>
AliasTable ==
    { << <<"b","r","1","g","h","t","b","l","o","x">>, brightblox >>,
      << <<"f","u","n","b","l","e","s">>,             funables >>,
      << <<"k","1","d","z","s","y">>,                 kidzsy >>,
      << <<"m","1","n","1","m","x">>,                 minimax >>,
      << <<"p","l","y","p","y","l","s">>,             playpals >>,
      << <<"p","l","y","p","l","s">>,                 playpals >>,
      << <<"z","p","p","y","t","o","y","s">> ,        zappytoys >> }

\* Series.replace(dict): a whole-value match is replaced, anything else is kept
ReplaceAlias(v) ==
    IF \E a \in AliasTable : a[1] = v
    THEN (CHOOSE a \in AliasTable : a[1] = v)[2]
    ELSE v

\* one value through lines 8-18
CleanPartnerId(v) == ReplaceAlias(StrReplaceNonAlnum(StrStrip(StrLower(v))))

\* clean_partner_ids: the returned Series
clean_partner_ids(s) == [i \in DOMAIN s |-> CleanPartnerId(s[i])]

\* lines 19-22: the values the warning lists
UnknownPartners(s) == Range(clean_partner_ids(s)) \ KnownPartners

(***************************************************************************)
(* cleaner.py: clean_timestamps                                            *)
(***************************************************************************)
AllDigits(p) == p # <<>> /\ \A i \in DOMAIN p : IsDigit(p[i])

RECURSIVE DigitsValue(_)
DigitsValue(p) ==
    IF p = <<>> THEN 0
    ELSE 10 * DigitsValue(SubSeq(p, 1, Len(p) - 1)) + DigitVal(p[Len(p)])

RECURSIVE SplitOn(_, _)
SplitOn(s, c) ==
    IF \E i \in DOMAIN s : s[i] = c
    THEN LET i == CHOOSE k \in DOMAIN s : s[k] = c /\ \A j \in 1..(k - 1) : s[j] # c
         IN  <<SubSeq(s, 1, i - 1)>> \o SplitOn(SubSeq(s, i + 1, Len(s)), c)
    ELSE <<s>>

\* the directive %Y of pandas' strptime: \d\d\d\d
MatchesY(p) == Len(p) = 4 /\ AllDigits(p)

\* %m: 1[0-2]|0[1-9]|[1-9]
MatchesM(p) == Len(p) \in {1, 2} /\ AllDigits(p) /\ DigitsValue(p) \in 1..12

\* %d: 3[01]|[12]\d|0[1-9]|[1-9]| [1-9]
MatchesD(p) ==
    \/ Len(p) \in {1, 2} /\ AllDigits(p) /\ DigitsValue(p) \in 1..31
    \/ Len(p) = 2 /\ p[1] = " " /\ IsDigit(p[2]) /\ p[2] # "0"

DayValue(p) == IF p[1] = " " THEN DigitVal(p[2]) ELSE DigitsValue(p)

IsLeap(y) == (y % 4 = 0 /\ y % 100 # 0) \/ y % 400 = 0

DaysInMonth(y, m) ==
    IF m = 2 THEN (IF IsLeap(y) THEN 29 ELSE 28)
    ELSE IF m \in {4, 6, 9, 11} THEN 30 ELSE 31

\* order of calendar dates <<y, m, d>>
DateLess(a, b) ==
    \/ a[1] < b[1]
    \/ a[1] = b[1] /\ a[2] < b[2]
    \/ a[1] = b[1] /\ a[2] = b[2] /\ a[3] < b[3]

\* a day of the calendar that datetime64[ns] can hold; anything else is coerced to NaT
MakeDate(y, m, d) ==
    IF /\ d <= DaysInMonth(y, m)
       /\ ~DateLess(<<y, m, d>>, <<1677, 9, 22>>)
       /\ ~DateLess(<<2262, 4, 11>>, <<y, m, d>>)
    THEN <<y, m, d>>
    ELSE NaT

\* pd.to_datetime(s, format="%Y-%m-%d", errors="coerce"), one value
ParseYMD(v) ==
    IF v = NaN THEN NaT
    ELSE LET p == SplitOn(v, "-")
         IN  IF Len(p) = 3 /\ MatchesY(p[1]) /\ MatchesM(p[2]) /\ MatchesD(p[3])
             THEN MakeDate(DigitsValue(p[1]), DigitsValue(p[2]), DayValue(p[3]))
             ELSE NaT

\* pd.to_datetime(s, format="%d/%m/%Y", errors="coerce"), one value
ParseDMY(v) ==
    IF v = NaN THEN NaT
    ELSE LET p == SplitOn(v, "/")
         IN  IF Len(p) = 3 /\ MatchesD(p[1]) /\ MatchesM(p[2]) /\ MatchesY(p[3])
             THEN MakeDate(DigitsValue(p[3]), DigitsValue(p[2]), DayValue(p[1]))
             ELSE NaT

\* dt1.fillna(dt2), one value
ParseTimestamp(v) == IF ParseYMD(v) # NaT THEN ParseYMD(v) ELSE ParseDMY(v)

\* clean_timestamps: the returned Series of dates
clean_timestamps(s) == [i \in DOMAIN s |-> ParseTimestamp(s[i])]

\* line 31: bad = s[ts.isna()].unique()
BadTimestamps(s) == {s[i] : i \in {k \in DOMAIN s : ParseTimestamp(s[k]) = NaT}}

(***************************************************************************)
(* dashboard.py: load_data                                                 *)
(***************************************************************************)
\* line 21: the cells that become np.nan
MissingTokens == { <<>>, <<"N","/","A">>, <<"N","A">>,
                   <<"n","u","l","l">>, <<"N","U","L","L">> }

\* lines 20-21, one cell
CleanCell(c) == IF Strip(c) \in MissingTokens THEN NaN ELSE Strip(c)

\* pd.to_numeric(errors="coerce"), one cell holding an optionally signed integer
\* literal; any other text is coerced to NaN
ToNumeric(c) ==
    IF c = NaN \/ c = <<>> THEN NaNum
    ELSE IF Head(c) \in {"-", "+"}
         THEN (IF AllDigits(Tail(c))
               THEN Num((IF Head(c) = "-" THEN -1 ELSE 1) * DigitsValue(Tail(c)))
               ELSE NaNum)
         ELSE (IF AllDigits(c) THEN Num(DigitsValue(c)) ELSE NaNum)

Column(f, name) == [i \in DOMAIN f |-> CleanCell(f[i][name])]

\* lines 19-25: the frame before the served-row rule; index is the row label
CleanRows(f) ==
    LET pid == clean_partner_ids(Column(f, "partner_id"))
        ts  == Column(f, "timestamp")
        dt  == clean_timestamps(ts)
    IN  [i \in DOMAIN f |->
            [index       |-> i,
             partner_id  |-> pid[i],
             timestamp   |-> ts[i],
             clicks      |-> ToNumeric(CleanCell(f[i].clicks)),
             impressions |-> ToNumeric(CleanCell(f[i].impressions)),
             date        |-> dt[i]]]

\* a served test that lets zero impressions through (>= for >)
served_nonneg(r) == ~r.impressions.na /\ r.impressions.v >= 0

\* line 27: served = df["impressions"].notna() & (df["impressions"] > 0)
served(r) == ~r.impressions.na /\ r.impressions.v > 0

\* line 28: df.loc[served & df["clicks"].isna(), "clicks"] = 0
FillClicks(r) == IF served(r) /\ r.clicks.na THEN [r EXCEPT !.clicks = Num(0)] ELSE r

KeepRow(r) == served(r) /\ r.date # NaT

\* lines 27-29: df = df[served].dropna(subset=["date"])
ServedRows(rows) == SelectSeq([i \in DOMAIN rows |-> FillClicks(rows[i])], KeepRow)

\* line 22 on a column that line 21 left without a single text value: replace()
\* has downcast it to float64 and the .str accessor raises AttributeError
LoadRaises(f) ==
    f # <<>> /\ \A i \in DOMAIN f : CleanCell(f[i].partner_id) = NaN

\* the st.warning calls of clean_partner_ids and clean_timestamps, in order
LoadWarnings(f) ==
    LET unknown == UnknownPartners(Column(f, "partner_id"))
        bad     == BadTimestamps(Column(f, "timestamp"))
    IN  (IF unknown # {} THEN << [kind |-> "partner_id", values |-> unknown] >> ELSE <<>>)
        \o (IF bad # {} THEN << [kind |-> "timestamp", values |-> bad] >> ELSE <<>>)

\* load_data(path) without the cache: the frame it returns
load_data(f) == ServedRows(CleanRows(f))

(***************************************************************************)
(* float64 values of the ctr columns: a ratio n/d in lowest terms with     *)
(* d > 0, or one of +inf, -inf, nan                                        *)
(***************************************************************************)
Abs(n) == IF n < 0 THEN -n ELSE n

RECURSIVE GCD(_, _)
GCD(a, b) == IF b = 0 THEN a ELSE GCD(b, a % b)

FNan == [kind |-> "nan", n |-> 0, d |-> 1]
FPosInf == [kind |-> "posinf", n |-> 0, d |-> 1]
FNegInf == [kind |-> "neginf", n |-> 0, d |-> 1]

\* the finite value n/d, d # 0
Ratio(n, d) ==
    LET g == GCD(Abs(n), Abs(d))
        sg == IF d < 0 THEN -1 ELSE 1
    IN  [kind |-> "fin", n |-> sg * (n \div g), d |-> sg * (d \div g)]

\* a - b of two columns
FSub(a, b) ==
    IF a.kind = "fin" /\ b.kind = "fin"
    THEN Ratio(a.n * b.d - b.n * a.d, a.d * b.d)
    ELSE FNan

\* a / b of two columns: numpy divides by zero without raising
FDiv(a, b) ==
    IF a.kind # "fin" \/ b.kind # "fin" THEN FNan
    ELSE IF b.n = 0
         THEN (IF a.n > 0 THEN FPosInf ELSE IF a.n < 0 THEN FNegInf ELSE FNan)
         ELSE Ratio(a.n * b.d, a.d * b.n)

\* a <= -(tenths/10): a comparison with nan is False
FLeNegTenths(a, tenths) ==
    \/ a.kind = "neginf"
    \/ a.kind = "fin" /\ 10 * a.n <= -tenths * a.d

(***************************************************************************)
(* dashboard.py: the partner filter (lines 36-39)                          *)
(***************************************************************************)
Uniques(rows) == {rows[i].partner_id : i \in DOMAIN rows}

\* sorted() compares a float nan with a str: TypeError
SortedRaises(ids) == NaN \in ids /\ Cardinality(ids) >= 2

RECURSIVE SortIds(_)
SortIds(ids) ==
    IF ids = {} THEN <<>>
    ELSE IF ids = {NaN} THEN <<NaN>>
    ELSE LET m == CHOOSE x \in ids : \A y \in ids \ {x} : StrLess(x, y)
         IN  <<m>> \o SortIds(ids \ {m})

IsSelected(r, sel) == r.partner_id \in sel

\* line 39: df[df["partner_id"].isin(selected)]
FilterPartners(rows, sel) ==
    LET Keep(r) == IsSelected(r, sel) IN SelectSeq(rows, Keep)

(***************************************************************************)
(* dashboard.py: daily aggregation (lines 44-49)                           *)
(***************************************************************************)
\* groupby drops the rows whose key is missing (dropna=True)
GroupKeys(rows) ==
    {<<rows[i].partner_id, rows[i].date>> :
        i \in {k \in DOMAIN rows : rows[k].partner_id # NaN /\ rows[k].date # NaT}}

KeyLess(a, b) == StrLess(a[1], b[1]) \/ (a[1] = b[1] /\ DateLess(a[2], b[2]))

\* the groups come out in the order of their keys
RECURSIVE SortKeys(_)
SortKeys(K) ==
    IF K = {} THEN <<>>
    ELSE LET m == CHOOSE x \in K : \A y \in K \ {x} : KeyLess(x, y)
         IN  <<m>> \o SortKeys(K \ {m})

InGroup(r, key) == r.partner_id = key[1] /\ r.date = key[2]

RECURSIVE SumClicks(_, _)
SumClicks(rows, key) ==
    IF rows = <<>> THEN 0
    ELSE (IF InGroup(Head(rows), key) THEN Head(rows).clicks.v ELSE 0)
         + SumClicks(Tail(rows), key)

RECURSIVE SumImpressions(_, _)
SumImpressions(rows, key) ==
    IF rows = <<>> THEN 0
    ELSE (IF InGroup(Head(rows), key) THEN Head(rows).impressions.v ELSE 0)
         + SumImpressions(Tail(rows), key)

\* line 49: daily["ctr"] = daily["clicks"] / daily["imps"]
Ctr(clicks, imps) == FDiv(Ratio(clicks, 1), Ratio(imps, 1))

\* lines 44-49
Aggregate(rows) ==
    LET keys == SortKeys(GroupKeys(rows))
    IN  [i \in DOMAIN keys |->
            LET c == SumClicks(rows, keys[i])
                m == SumImpressions(rows, keys[i])
            IN  [partner_id |-> keys[i][1], date |-> keys[i][2],
                 clicks |-> c, imps |-> m, ctr |-> Ctr(c, m)]]

(***************************************************************************)
(* dashboard.py: drop classification (lines 50-62)                         *)
(***************************************************************************)
\* line 51: sort_values(["partner_id", "date"]), the stable sort of the rows
RowLess(a, b) == KeyLess(<<a.partner_id, a.date>>, <<b.partner_id, b.date>>)

RECURSIVE SortRows(_)
SortRows(d) ==
    IF d = <<>> THEN <<>>
    ELSE LET i == CHOOSE k \in DOMAIN d :
                    /\ \A j \in DOMAIN d : ~RowLess(d[j], d[k])
                    /\ \A j \in 1..(k - 1) : RowLess(d[k], d[j])
             rest == [j \in 1..(Len(d) - 1) |-> IF j < i THEN d[j] ELSE d[j + 1]]
         IN  <<d[i]>> \o SortRows(rest)

\* shift(1) over the whole frame, without the groupby
PrevCtr_ungrouped(d, i) == IF i = 1 THEN FNan ELSE d[i - 1].ctr

\* line 52: groupby("partner_id")["ctr"].shift(1): the ctr of the row before,
\* among the rows of the same partner
PrevCtr(d, i) ==
    LET before == {j \in 1..(i - 1) : d[j].partner_id = d[i].partner_id}
    IN  IF before = {} THEN FNan
        ELSE d[CHOOSE j \in before : \A k \in before : k <= j].ctr

\* a change taken relative to the day's own ctr
PctChange_of_today(ctr, prev) == FDiv(FSub(ctr, prev), ctr)

\* line 53
PctChange(ctr, prev) == FDiv(FSub(ctr, prev), prev)

\* the conditions listed mildest first: np.select stops at "10%"
DropLevel_mildest_first(pct) ==
    IF FLeNegTenths(pct, 1) THEN "10%"
    ELSE IF FLeNegTenths(pct, 2) THEN "20%"
    ELSE IF FLeNegTenths(pct, 3) THEN "30%"
    ELSE ""

\* lines 55-61: np.select takes the first condition that holds
DropLevel(pct) ==
    IF FLeNegTenths(pct, 3) THEN "30%"
    ELSE IF FLeNegTenths(pct, 2) THEN "20%"
    ELSE IF FLeNegTenths(pct, 1) THEN "10%"
    ELSE ""

\* lines 50-61
Classify(agg) ==
    LET d == SortRows(agg)
    IN  [i \in DOMAIN d |->
            LET prev == PrevCtr(d, i)
                pct  == PctChange(d[i].ctr, prev)
            IN  [partner_id |-> d[i].partner_id, date |-> d[i].date,
                 clicks |-> d[i].clicks, imps |-> d[i].imps, ctr |-> d[i].ctr,
                 prev_ctr |-> prev, pct_change |-> pct,
                 drop_level |-> DropLevel(pct)]]

IsDrop(r) == r.drop_level # ""

\* line 62
DropRows(d) == SelectSeq(d, IsDrop)

\* lines 96-98
NoMidHighDrops(d) ==
    LET has_20 == \E i \in DOMAIN d : d[i].drop_level = "20%"
        has_30 == \E i \in DOMAIN d : d[i].drop_level = "30%"
    IN  ~has_20 /\ ~has_30

(***************************************************************************)
(* The log file: rows an ad server can write.  Each cell is raw text.      *)
(***************************************************************************)
RawRow(p, t, c, m) == [partner_id |-> p, timestamp |-> t, clicks |-> c, impressions |-> m]

RawBrightBlox == <<" ","B","r","1","g","h","t","-","B","l","o","x">>
RawAcme == <<"A","c","m","e","!">>
RawNA == <<"N","/","A">>
RawMar05 == <<"2","0","2","4","-","0","3","-","0","5">>
RawMar06 == <<"0","6","/","0","3","/","2","0","2","4">>
RawMar09 == <<"2","0","2","4","-","0","3","-","0","9">>
RawBadDay == <<"1","3","/","1","3","/","2","0","2","4">>

RawRows ==
    { RawRow(RawBrightBlox, RawMar05, <<"1","0">>, <<"1","0">>),
      RawRow(RawBrightBlox, RawMar06, <<"9">>, <<" ","1","0"," ">>),
      RawRow(RawBrightBlox, RawMar09, <<"7">>, <<"1","0">>),
      RawRow(RawBrightBlox, RawMar09, <<"8">>, <<"1","0">>),
      RawRow(RawAcme, RawMar05, <<>>, <<"1","0">>),
      RawRow(RawAcme, RawMar06, <<"-","1">>, <<"1","0">>),
      RawRow(RawAcme, RawMar09, <<"5">>, <<"1","0">>),
      RawRow(RawAcme, RawMar09, <<"0">>, <<"1","0">>),
      RawRow(RawNA, RawMar05, <<"5">>, <<"1","0">>),
      RawRow(RawAcme, RawBadDay, <<"n","/","a">>, <<"1","0">>),
      RawRow(RawBrightBlox, <<>>, <<"5">>, <<"1","0">>),
      RawRow(RawAcme, RawMar05, <<"5">>, <<"0">>),
      RawRow(RawBrightBlox, RawMar05, <<"0">>, <<"N","A">>) }

(***************************************************************************)
(* The state machine: the log file grows, and every (re)run of the script  *)
(* executes dashboard.py from top to bottom.                               *)
(***************************************************************************)
Init ==
    /\ file = <<>>
    /\ cache = <<>>
    /\ hit = FALSE
    /\ status = "idle"
    /\ error = ""
    /\ loaded = <<>>
    /\ warnings = <<>>
    /\ partner_opts = <<>>
    /\ selected = {}
    /\ df = <<>>
    /\ daily = <<>>
    /\ drop_rows = <<>>
    /\ info = FALSE

\* the ad server writes the log before the dashboard is started
WriteRow ==
    /\ status = "idle"
    /\ Len(file) < MaxRows
    /\ \E r \in RawRows : file' = Append(file, r)
    /\ UNCHANGED <<cache, hit, status, error, loaded, warnings, partner_opts,
                   selected, df, daily, drop_rows, info>>

\* the ad server appends a row to the log at any time, also while the dashboard
\* is up and holds a cached frame
AppendRow ==
    /\ Len(file) < MaxLiveRows
    /\ \E r \in RawRows : file' = Append(file, r)
    /\ UNCHANGED <<cache, hit, status, error, loaded, warnings, partner_opts,
                   selected, df, daily, drop_rows, info>>

\* a cache that hands out the stored object itself, which the previous run's
\* partner filter has cut down
CacheLookup_shared(c, f) ==
    IF c # <<>> THEN [c[1] EXCEPT !.value = df]
    ELSE [content |-> f, value |-> load_data(f), warnings |-> LoadWarnings(f)]

\* @st.cache_data keys the entry by the function's argument, the path, which
\* never changes: the first value computed is the value of every later call.
\* content records the file contents the entry was computed from.
CacheLookup(c, f) ==
    IF c # <<>> THEN c[1]
    ELSE [content |-> f, value |-> load_data(f), warnings |-> LoadWarnings(f)]

\* a run whose load_data call raises (line 22): nothing is cached or shown
RunLoadFails ==
    /\ cache = <<>>
    /\ LoadRaises(file)
    /\ status' = "raised"
    /\ error' = "AttributeError"
    /\ hit' = FALSE
    /\ loaded' = <<>>
    /\ warnings' = <<>>
    /\ partner_opts' = <<>>
    /\ selected' = {}
    /\ df' = <<>>
    /\ daily' = <<>>
    /\ drop_rows' = <<>>
    /\ info' = FALSE
    /\ UNCHANGED <<file, cache>>

\* a run that load_data survives and sorted() aborts (line 37)
RunSortFails ==
    /\ cache # <<>> \/ ~LoadRaises(file)
    /\ \E e \in {CacheLookup(cache, file)} :
           /\ SortedRaises(Uniques(e.value))
           /\ cache' = <<e>>
           /\ hit' = (cache # <<>>)
           /\ loaded' = e.value
           /\ warnings' = e.warnings
    /\ status' = "raised"
    /\ error' = "TypeError"
    /\ partner_opts' = <<>>
    /\ selected' = {}
    /\ df' = <<>>
    /\ daily' = <<>>
    /\ drop_rows' = <<>>
    /\ info' = FALSE
    /\ UNCHANGED file

\* a run that reaches the end of the script with the sidebar selection sel
RunCompletes ==
    /\ cache # <<>> \/ ~LoadRaises(file)
    /\ \E e \in {CacheLookup(cache, file)} :
           /\ ~SortedRaises(Uniques(e.value))
           /\ cache' = <<e>>
           /\ hit' = (cache # <<>>)
           /\ loaded' = e.value
           /\ warnings' = e.warnings
           /\ partner_opts' = SortIds(Uniques(e.value))
           /\ \E sel \in SUBSET Uniques(e.value) :
                \E d \in {Classify(Aggregate(FilterPartners(e.value, sel)))} :
                    /\ selected' = sel
                    /\ df' = FilterPartners(e.value, sel)
                    /\ daily' = d
                    /\ drop_rows' = DropRows(d)
                    /\ info' = NoMidHighDrops(d)
    /\ status' = "done"
    /\ error' = ""
    /\ UNCHANGED file

Rerun == RunLoadFails \/ RunSortFails \/ RunCompletes

\* the first run of a session
FirstRun == status = "idle" /\ Rerun

\* one run of the pipeline over a log written beforehand
Next == WriteRow \/ FirstRun

Spec == Init /\ [][Next]_vars

\* a dashboard that stays up while the log grows
NextLive == AppendRow \/ Rerun

SpecLive == Init /\ [][NextLive]_vars

(***************************************************************************)
(* Properties                                                              *)
(***************************************************************************)
Loaded == status # "idle" /\ error # "AttributeError"

Done == status = "done"

\* the frame before the served-row rule, for the contents load_data read
Cleaned == CleanRows(cache[1].content)

RECURSIVE SumSeq(_)
SumSeq(ns) == IF ns = <<>> THEN 0 ELSE Head(ns) + SumSeq(Tail(ns))

RowImpressions(rows) == SumSeq([i \in DOMAIN rows |-> rows[i].impressions.v])

RowClicks(rows) == SumSeq([i \in DOMAIN rows |-> rows[i].clicks.v])

DailyImps(d) == SumSeq([i \in DOMAIN d |-> d[i].imps])

\* a <= -(tenths/10) for a float of the pct_change column
AtMostNegTenths(a, tenths) ==
    a.kind = "neginf" \/ (a.kind = "fin" /\ 10 * a.n <= -tenths * a.d)

HasPredecessor(i) == \E j \in 1..(i - 1) : daily[j].partner_id = daily[i].partner_id

\* C1: load_data retains a cleaned row iff its impressions are non-null and > 0
\* and its date is non-null; a retained row has clicks 0 where they were null and
\* its own clicks otherwise; so every surviving row has positive impressions,
\* non-null clicks and a valid date.
C1_RowFilter ==
    Loaded =>
        LET cl == Cleaned
        IN  /\ \A i \in DOMAIN cl :
                LET kept == {k \in DOMAIN loaded : loaded[k].index = i}
                IN  /\ (kept # {}) <=>
                          (/\ ~cl[i].impressions.na
                           /\ cl[i].impressions.v > 0
                           /\ cl[i].date # NaT)
                    /\ Cardinality(kept) <= 1
                    /\ \A k \in kept :
                          loaded[k] = [cl[i] EXCEPT !.clicks =
                                          IF cl[i].clicks.na THEN Num(0) ELSE cl[i].clicks]
            /\ \A k \in DOMAIN loaded :
                /\ loaded[k].index \in DOMAIN cl
                /\ ~loaded[k].impressions.na /\ loaded[k].impressions.v > 0
                /\ ~loaded[k].clicks.na
                /\ loaded[k].date # NaT

\* C1 witness: one load that zero-fills a null-click row and discards a row with
\* impressions 0 and clicks 5 and a row with null impressions and clicks 0.
C1_Witness ==
    /\ Loaded
    /\ LET cl == Cleaned
       IN  \E i, j, k \in DOMAIN cl :
            /\ cl[i].clicks.na /\ cl[i].impressions = Num(10)
            /\ \E n \in DOMAIN loaded : loaded[n].index = i /\ loaded[n].clicks = Num(0)
            /\ cl[j].impressions = Num(0) /\ cl[j].clicks = Num(5)
            /\ cl[k].impressions.na /\ cl[k].clicks = Num(0)
            /\ \A n \in DOMAIN loaded : loaded[n].index \notin {j, k}

C4_NonNegative ==
    /\ Loaded =>
        \A k \in DOMAIN loaded :
            /\ ~loaded[k].impressions.na /\ loaded[k].impressions.v > 0
            /\ ~loaded[k].clicks.na /\ loaded[k].clicks.v >= 0
    /\ Done =>
        \A i \in DOMAIN daily : daily[i].ctr.kind = "fin" /\ daily[i].ctr.n >= 0

\* C5: whatever the cell values, a run goes from load_data through the partner
\* selection, the aggregation and the classification without raising.
C5_NeverRaises == status # "raised"

\* C6: a timestamp warning lists only non-missing input strings that match
\* neither date format; a row excluded for a missing date or for zero or missing
\* impressions causes no warning.
C6_SilentExclusion ==
    Loaded =>
        LET cl == Cleaned
        IN  \A n \in DOMAIN warnings :
                warnings[n].kind = "timestamp" =>
                    /\ NaN \notin warnings[n].values
                    /\ \A v \in warnings[n].values :
                          \E i \in DOMAIN cl : cl[i].timestamp = v /\ cl[i].date = NaT

\* C7 (as claimed): every invocation of load_data, whatever has been written to
\* the file in between, returns what an uncached load+clean of the file returns
\* at that invocation.
C7_CacheTransparent ==
    [][(file' = file /\ status' # "idle" /\ error' # "AttributeError")
          => loaded' = load_data(file')]_vars

\* C7 (amended): an invocation of load_data returns what an uncached load+clean
\* of the file returns at that invocation whenever the file holds what it held
\* when the entry was cached; once an entry is cached every later invocation
\* returns that entry's frame.
C7_FreshWhileUnchanged ==
    [][(file' = file /\ status' # "idle" /\ error' # "AttributeError")
          => /\ cache' # <<>>
             /\ (cache'[1].content = file' =>
                    loaded' = load_data(file') /\ warnings' = LoadWarnings(file'))
             /\ (cache # <<>> => cache' = cache /\ loaded' = cache[1].value)]_vars

\* C7 witness: a run served by the cache while the file is unchanged.
C7_Witness ==
    /\ Done /\ hit
    /\ cache[1].content = file
    /\ loaded # <<>> /\ loaded = load_data(file)

\* C8: an id outside the canonical set is listed in the warning, is returned by
\* clean_partner_ids as it is, and every served row that carries it falls in a
\* DailyMetric keyed by it: the impressions of the DailyMetric rows add up to the
\* impressions of the served rows.
C8_UnknownPassThrough ==
    Done =>
        /\ LET cl == Cleaned
           IN  \A i \in DOMAIN cl :
                  cl[i].partner_id \notin KnownPartners =>
                      \E n \in DOMAIN warnings :
                          /\ warnings[n].kind = "partner_id"
                          /\ cl[i].partner_id \in warnings[n].values
        /\ \A k \in DOMAIN df :
              \E i \in DOMAIN daily :
                  daily[i].partner_id = df[k].partner_id /\ daily[i].date = df[k].date
        /\ DailyImps(daily) = RowImpressions(df)

\* C9: there is exactly one DailyMetric per (partner_id, date) pair of the
\* served rows and none for any other pair; its clicks and impressions are the
\* sums over the served rows of the pair, its impressions are > 0 and its ctr is
\* clicks / impressions.
C9_Aggregation ==
    Done =>
        /\ \A k \in DOMAIN df :
              \E i \in DOMAIN daily :
                  daily[i].partner_id = df[k].partner_id /\ daily[i].date = df[k].date
        /\ \A i \in DOMAIN daily :
              LET InPair(r) == r.partner_id = daily[i].partner_id /\ r.date = daily[i].date
                  grp       == SelectSeq(df, InPair)
              IN  /\ grp # <<>>
                  /\ daily[i].clicks = RowClicks(grp)
                  /\ daily[i].imps = RowImpressions(grp)
                  /\ daily[i].imps > 0
                  /\ daily[i].ctr.kind = "fin"
                  /\ daily[i].ctr.n * daily[i].imps = daily[i].clicks * daily[i].ctr.d
        /\ \A i, j \in DOMAIN daily :
              (daily[i].partner_id = daily[j].partner_id /\ daily[i].date = daily[j].date)
                  => i = j

\* the DropEvents of partner p in a classified frame
EventsOf(d, p) == SelectSeq(d, LAMBDA r : r.partner_id = p /\ r.drop_level # "")

\* C10: prev_ctr of a DailyMetric row is the ctr of the same partner's latest
\* strictly earlier date in the data, never another partner's; the first date of
\* a partner has no prev_ctr and no DropEvent; the DropEvents of a selected
\* partner are those it has when it is selected alone and when every partner is.
C10_PerPartnerPrevious ==
    Done =>
        /\ \A i \in DOMAIN daily :
            LET earlier == {j \in DOMAIN daily :
                              /\ daily[j].partner_id = daily[i].partner_id
                              /\ DateLess(daily[j].date, daily[i].date)}
            IN  IF earlier = {}
                THEN daily[i].prev_ctr = FNan /\ daily[i].drop_level = ""
                ELSE \E j \in earlier :
                        /\ \A k \in earlier : ~DateLess(daily[j].date, daily[k].date)
                        /\ daily[i].prev_ctr = daily[j].ctr
        /\ LET all == Classify(Aggregate(loaded))
           IN  \A p \in selected :
                /\ EventsOf(drop_rows, p)
                     = EventsOf(Classify(Aggregate(FilterPartners(loaded, {p}))), p)
                /\ EventsOf(drop_rows, p) = EventsOf(all, p)

\* C10 witness: a frame in which the first date of one partner follows a row of
\* another partner with a different ctr, and a later date of that partner is a
\* DropEvent against its own previous date.
C10_Witness ==
    /\ Done
    /\ \E i \in DOMAIN daily :
        /\ i > 1 /\ i < Len(daily)
        /\ daily[i - 1].partner_id # daily[i].partner_id
        /\ daily[i - 1].ctr # daily[i].ctr
        /\ daily[i].prev_ctr = FNan
        /\ daily[i + 1].partner_id = daily[i].partner_id
        /\ daily[i + 1].prev_ctr = daily[i].ctr
        /\ daily[i + 1].drop_level # ""

====
